---- MODULE Spec2Model ----
(***************************************************************************)
(* Model of the mu-law codec and the WebSocket call scripts of the         *)
(* AI-Voice-Sales-Agent test tooling: fake_call.py (encoder, call          *)
(* simulator), test_flow.py (decoder, greeting wait) and test_ai.py        *)
(* (media-stream tester).                                                  *)
(***************************************************************************)
EXTENDS Integers, Sequences, FiniteSets, TLC

VARIABLES
    pcm_bytes,      \* codec: the raw PCM byte buffer handed to linear_to_mulaw
    env_fault,      \* codec: whether a step inside the encoder's try block raises
    enc,            \* codec: result of linear_to_mulaw(pcm_bytes)
    enc_prefix,     \* codec: result of linear_to_mulaw on the even-length prefix
    dec,            \* codec: int16 samples of mulaw_to_linear_float(enc.ret)
    cpc,            \* codec: position of the codec pipeline
    script,         \* session: which script runs
    pc,             \* session: position of the script's main coroutine
    chan,           \* session: state of the WebSocket
    out,            \* session: the JSON texts sent so far, in order
    inq,            \* session: texts the peer sent and the script has not read
    peer_sent,      \* session: how many texts the peer has sent
    lpc,            \* fake_call: state of the listener task
    ai_response_count,      \* fake_call: the listener's counter
    phrase,         \* fake_call: index of the utterance being sent
    offset,         \* offset into mulaw_audio of the next chunk to send
    mulaw_audio,    \* the encoded audio being streamed
    aborted,        \* the exception that ended the script, "" when none
    clock,          \* seconds the clock has advanced since the script began
    CALL_SID,       \* fake_call: module constant computed at import
    start_message,  \* test_ai: the start dict, read again when sending
    greeting_received,          \* test_ai
    received_audio_chunks,      \* test_ai
    test_audio_file \* test_ai: whether a test audio file was given

codec_vars == <<pcm_bytes, env_fault, enc, enc_prefix, dec, cpc>>

session_vars == <<script, pc, chan, out, inq, peer_sent, lpc, ai_response_count,
                  phrase, offset, mulaw_audio, aborted, clock, CALL_SID, start_message,
                  greeting_received, received_audio_chunks, test_audio_file>>

vars == <<codec_vars, session_vars>>

(***************************************************************************)
(* Integer helpers: numpy's shifts and masks on fixed-width integers.      *)
(***************************************************************************)
RECURSIVE Pow2(_)
Pow2(n) == IF n = 0 THEN 1 ELSE 2 * Pow2(n - 1)

\* a << n on an unbounded (Python) or wide enough (int32) integer
Shl(a, n) == a * Pow2(n)

\* a >> n, arithmetic: floor division, also for negative a
Shr(a, n) == a \div Pow2(n)

\* a & (2^k - 1) on a two's-complement integer
LowBits(a, k) == a % Pow2(k)

Min(a, b) == IF a < b THEN a ELSE b

Int16 == -32768 .. 32767


\* dtype=np.int16 reinterpretation of two little-endian bytes
ToInt16(lo, hi) ==
    LET u == lo + 256 * hi
    IN  IF u >= 32768 THEN u - 65536 ELSE u

\* ndarray.tobytes() of one int16 sample (little-endian)
Int16Bytes(x) ==
    LET u == IF x < 0 THEN x + 65536 ELSE x
    IN  <<u % 256, u \div 256>>

(***************************************************************************)
(* fake_call.py: linear_to_mulaw                                           *)
(***************************************************************************)
BIAS == 132

CLIP == 32635

\* mutant: the buffer is read as one sample per byte (dtype=np.int8)
frombuffer_int16_PerByte(b) ==
    [ok |-> TRUE,
     val |-> [i \in 1 .. Len(b) |-> IF b[i] >= 128 THEN b[i] - 256 ELSE b[i]]]

\* np.frombuffer(pcm_bytes, dtype=np.int16): raises ValueError when the
\* buffer size is not a multiple of the element size
frombuffer_int16(b) ==
    IF Len(b) % 2 # 0
    THEN [ok |-> FALSE, val |-> <<>>]
    ELSE [ok |-> TRUE,
          val |-> [i \in 1 .. (Len(b) \div 2) |-> ToInt16(b[2 * i - 1], b[2 * i])]]

\* mutant: the odd trailing byte is kept
TruncateOdd_Keep(b) == b

\* if len(pcm_bytes) % 2 != 0: pcm_bytes = pcm_bytes[:-1]
TruncateOdd(b) ==
    IF Len(b) % 2 # 0 THEN SubSeq(b, 1, Len(b) - 1) ELSE b

\* np.abs on an int16 array: the result stays int16, so abs(-32768) wraps
np_abs_int16(v) ==
    IF v = -32768 THEN -32768 ELSE IF v < 0 THEN -v ELSE v

\* np.minimum(magnitude, CLIP) + BIAS, on int32
BiasedMagnitude(v) ==
    LET magnitude == np_abs_int16(v)
        clipped   == IF magnitude < CLIP THEN magnitude ELSE CLIP
    IN  clipped + BIAS

\* for exp_val in range(7, -1, -1):
\*     mask = (temp >= (256 << exp_val)) & (exponent == 0)
\*     exponent[mask] = exp_val
RECURSIVE ExponentScan(_, _, _)
ExponentScan(temp, exp_val, exponent) ==
    IF exp_val < 0
    THEN exponent
    ELSE LET mask == (temp >= Shl(256, exp_val)) /\ (exponent = 0)
         IN  ExponentScan(temp, exp_val - 1, IF mask THEN exp_val ELSE exponent)

EncExponent(v) == ExponentScan(BiasedMagnitude(v), 7, 0)

\* mantissa = (magnitude >> (exponent + 3)) & 0x0F
EncMantissa(v) == LowBits(Shr(BiasedMagnitude(v), EncExponent(v) + 3), 4)

\* mulaw = ~((sign << 7) | (exponent << 4) | mantissa) & 0xFF
EncodeSample(v) ==
    LET sign  == IF v < 0 THEN 1 ELSE 0
        field == Shl(sign, 7) + Shl(EncExponent(v), 4) + EncMantissa(v)
    IN  LowBits(-field - 1, 8)

\* the body of the try block; fault: a step of the conversion raises
\* (for instance an allocation failure inside numpy)
EncodeTry(b, fault) ==
    IF Len(b) = 0
    THEN [ok |-> TRUE, val |-> <<>>]
    ELSE LET pcm == frombuffer_int16(TruncateOdd(b))
         IN  IF fault \/ ~pcm.ok
             THEN [ok |-> FALSE, val |-> <<>>]
             ELSE [ok |-> TRUE,
                   val |-> [i \in 1 .. Len(pcm.val) |-> EncodeSample(pcm.val[i])]]

\* mutant: the handler lets the exception out
EncodeExcept_Reraise(r) ==
    IF r.ok
    THEN [ret |-> r.val, raised |-> FALSE, logged |-> FALSE]
    ELSE [ret |-> <<>>, raised |-> TRUE, logged |-> FALSE]

\* except Exception as e: print(...); return b''
EncodeExcept(r) ==
    IF r.ok
    THEN [ret |-> r.val, raised |-> FALSE, logged |-> FALSE]
    ELSE [ret |-> <<>>, raised |-> FALSE, logged |-> TRUE]

linear_to_mulaw(b, fault) == EncodeExcept(EncodeTry(b, fault))

(***************************************************************************)
(* test_flow.py: mulaw_to_linear_float, up to the int16 array pcm (the     *)
(* division by 32768.0 scales it and changes neither sign nor order).      *)
(* Every intermediate array is uint8, so the shifts wrap modulo 256.       *)
(***************************************************************************)
\* mantissa, exponent, sign of np.bitwise_xor(mu_law, 0xFF)
DecSign(c) == ((255 - c) \div 128) * 128

DecExponent(c) == ((255 - c) \div 16) % 8

DecMantissa(c) == (255 - c) % 16

\* magnitude = ((mantissa << 4) + 8) << (exponent + 2), dtype uint8
DecMagnitude(c) ==
    LowBits(Shl(LowBits(LowBits(Shl(DecMantissa(c), 4), 8) + 8, 8),
                DecExponent(c) + 2), 8)

\* pcm = magnitude.astype(np.int16); pcm[sign != 0] = -pcm[sign != 0]
DecodeByte(c) ==
    IF DecSign(c) # 0 THEN -DecMagnitude(c) ELSE DecMagnitude(c)

mulaw_to_linear_float(m) == [i \in 1 .. Len(m) |-> DecodeByte(m[i])]

(***************************************************************************)
(* The codec pipeline: encode a buffer, encode its even-length prefix,     *)
(* decode the encoder's output.                                            *)
(***************************************************************************)
\* the samples the encoder reads from pcm_bytes
Samples == frombuffer_int16(SubSeq(pcm_bytes, 1, 2 * (Len(pcm_bytes) \div 2))).val

NoEnc == [ret |-> <<>>, raised |-> FALSE, logged |-> FALSE]

\* no script runs while the codec is exercised alone
SessionIdle ==
    /\ script = "none"
    /\ pc = "idle"
    /\ chan = "idle"
    /\ out = <<>>
    /\ inq = <<>>
    /\ peer_sent = 0
    /\ lpc = "none"
    /\ ai_response_count = 0
    /\ phrase = 0
    /\ offset = 0
    /\ mulaw_audio = <<>>
    /\ aborted = ""
    /\ clock = 0
    /\ CALL_SID = ""
    /\ start_message = [k |-> "none", s |-> "", o |-> <<>>]
    /\ greeting_received = FALSE
    /\ received_audio_chunks = <<>>
    /\ test_audio_file = FALSE

\* mulaw_audio = linear_to_mulaw(pcm_audio)
Encode ==
    /\ cpc = "input"
    /\ enc' = linear_to_mulaw(pcm_bytes, env_fault)
    /\ cpc' = "encoded"
    /\ UNCHANGED <<pcm_bytes, env_fault, enc_prefix, dec, session_vars>>

\* linear_to_mulaw on the first 2k bytes of the same buffer
EncodePrefix ==
    /\ cpc = "encoded"
    /\ enc_prefix' = linear_to_mulaw(
                        SubSeq(pcm_bytes, 1, 2 * (Len(pcm_bytes) \div 2)), env_fault)
    /\ cpc' = "prefixed"
    /\ UNCHANGED <<pcm_bytes, env_fault, enc, dec, session_vars>>

\* mulaw_to_linear_float on the bytes the encoder returned
Decode ==
    /\ cpc = "prefixed"
    /\ ~enc.raised
    /\ dec' = mulaw_to_linear_float(enc.ret)
    /\ cpc' = "decoded"
    /\ UNCHANGED <<pcm_bytes, env_fault, enc, enc_prefix, session_vars>>

NextCodec == Encode \/ EncodePrefix \/ Decode

\* every int16 sample x, paired with its successor, as a two-sample buffer
InitCodec ==
    /\ \E x \in Int16 :
          pcm_bytes = Int16Bytes(x) \o Int16Bytes(IF x < 32767 THEN x + 1 ELSE x)
    /\ env_fault = FALSE
    /\ enc = NoEnc
    /\ enc_prefix = NoEnc
    /\ dec = <<>>
    /\ cpc = "input"
    /\ SessionIdle

SpecCodec == InitCodec /\ [][NextCodec]_vars

MaxBufLen == 4

BufBytes == {0, 1, 127, 128, 255}

RECURSIVE SeqsUpTo(_, _)
SeqsUpTo(S, n) ==
    IF n = 0 THEN {<<>>}
    ELSE LET shorter == SeqsUpTo(S, n - 1)
         IN  shorter \cup {Append(q, b) : q \in {r \in shorter : Len(r) = n - 1}, b \in S}

\* byte buffers of any length up to MaxBufLen, with or without a failing step
InitBuffer ==
    /\ pcm_bytes \in SeqsUpTo(BufBytes, MaxBufLen)
    /\ env_fault \in BOOLEAN
    /\ enc = NoEnc
    /\ enc_prefix = NoEnc
    /\ dec = <<>>
    /\ cpc = "input"
    /\ SessionIdle

SpecBuffer == InitBuffer /\ [][NextCodec]_vars

(***************************************************************************)
(* The G.711 mu-law reference encoder (bias 132, clip 32635, exponent =    *)
(* position of the highest set bit of the biased magnitude among bits      *)
(* 14..7, mantissa = the four bits below it, complemented).                *)
(***************************************************************************)
RECURSIVE G711Exponent(_, _)
G711Exponent(mag, e) ==
    IF e = 0 \/ mag >= Shl(128, e) THEN e ELSE G711Exponent(mag, e - 1)

G711Encode(v) ==
    LET sign == IF v < 0 THEN 1 ELSE 0
        abs  == IF v < 0 THEN -v ELSE v
        mag  == (IF abs > 32635 THEN 32635 ELSE abs) + 132
        e    == G711Exponent(mag, 7)
        m    == LowBits(Shr(mag, e + 3), 4)
    IN  255 - (128 * sign + 16 * e + m)

Abs(a) == IF a < 0 THEN -a ELSE a

\* C1: round-trip sign preservation: the decoded sample is negative exactly
\* when the encoded sample is negative.
C1_SignPreserved ==
    cpc = "decoded" =>
        \A i \in 1 .. Len(dec) : (dec[i] < 0) <=> (Samples[i] < 0)

\* C2: round-trip monotonicity: x <= y implies decode(encode(x)) <=
\* decode(encode(y)).
C2_RoundTripMonotone ==
    cpc = "decoded" =>
        \A i, j \in 1 .. Len(dec) :
            Samples[i] <= Samples[j] => dec[i] <= dec[j]

\* C3: the byte linear_to_mulaw produces for a sample is the byte of the
\* G.711 mu-law reference encoder.
C3_MatchesG711 ==
    (cpc # "input" /\ ~env_fault) =>
        \A i \in 1 .. Len(enc.ret) : enc.ret[i] = G711Encode(Samples[i])

\* C4: the round-trip error is at most one mantissa step of the decoder at
\* the exponent of the code: |decode(encode(x)) - x| <= 16 << (e + 2).
C4_ErrorWithinStep ==
    cpc = "decoded" =>
        \A i \in 1 .. Len(dec) :
            Abs(dec[i] - Samples[i]) <= Shl(16, DecExponent(enc.ret[i]) + 2)

\* C5: odd-length truncation: on a buffer of 2k+1 bytes linear_to_mulaw
\* returns the bytes it returns on the first 2k bytes.
C5_OddLengthTruncated ==
    (cpc \in {"prefixed", "decoded"} /\ Len(pcm_bytes) % 2 = 1) =>
        /\ enc.ret = enc_prefix.ret
        /\ enc.raised = enc_prefix.raised
        /\ (~env_fault => ~enc.logged)

C5_Witness ==
    /\ cpc = "prefixed"
    /\ Len(pcm_bytes) = 3
    /\ ~env_fault
    /\ Len(enc.ret) = 1
    /\ enc.ret = enc_prefix.ret

\* C6: length preservation: n input bytes give floor(n/2) code bytes, m code
\* bytes give m decoded samples; empty gives empty in both directions.
C6_LengthPreserved ==
    /\ (cpc # "input" /\ ~env_fault) =>
          (~enc.raised /\ Len(enc.ret) = Len(pcm_bytes) \div 2)
    /\ cpc = "decoded" => Len(dec) = Len(enc.ret)

C6_Witness ==
    /\ cpc = "decoded"
    /\ ~env_fault
    /\ Len(pcm_bytes) = 4
    /\ Len(enc.ret) = 2
    /\ Len(dec) = 2

\* C7: the encoder never raises: it returns a buffer for every input; when
\* a step of the conversion fails the result is the empty buffer and the
\* failure is logged, and the caller goes on with the returned buffer.
C7_EncoderNeverRaises ==
    cpc # "input" =>
        /\ ~enc.raised
        /\ (enc.logged => enc.ret = <<>>)
        /\ ((env_fault /\ Len(pcm_bytes) > 0) => (enc.logged /\ enc.ret = <<>>))
        /\ (~env_fault => ~enc.logged)
        /\ (cpc = "prefixed" => ENABLED Decode)

C7_Witness ==
    /\ cpc = "decoded"
    /\ env_fault
    /\ Len(pcm_bytes) >= 2
    /\ enc.logged
    /\ enc.ret = <<>>
    /\ dec = <<>>

(***************************************************************************)
(* base64.b64encode / base64.b64decode on byte sequences; the text is a    *)
(* string over the base64 alphabet, padded with "=".                       *)
(***************************************************************************)
B64Alphabet == "ABCDEFGHIJKLMNOPQRSTUVWXYZabcdefghijklmnopqrstuvwxyz0123456789+/"

CharAt(str, i) == SubSeq(str, i, i)

B64Char(n) == CharAt(B64Alphabet, n + 1)

B64Index == [ch \in {B64Char(n) : n \in 0 .. 63} |->
                CHOOSE n \in 0 .. 63 : B64Char(n) = ch]

\* one group of up to three bytes as four characters
B64Group(g) ==
    LET b1 == g[1]
        b2 == IF Len(g) >= 2 THEN g[2] ELSE 0
        b3 == IF Len(g) >= 3 THEN g[3] ELSE 0
    IN  B64Char(b1 \div 4)
        \o B64Char((b1 % 4) * 16 + b2 \div 16)
        \o (IF Len(g) >= 2 THEN B64Char((b2 % 16) * 4 + b3 \div 64) ELSE "=")
        \o (IF Len(g) >= 3 THEN B64Char(b3 % 64) ELSE "=")

\* the characters of groups g1 .. g2 of b (group g: bytes 3g-2 .. 3g)
RECURSIVE B64EncodeGroups(_, _, _)
B64EncodeGroups(b, g1, g2) ==
    IF g1 = g2
    THEN B64Group(SubSeq(b, 3 * g1 - 2, Min(3 * g1, Len(b))))
    ELSE LET mid == (g1 + g2) \div 2
         IN  B64EncodeGroups(b, g1, mid) \o B64EncodeGroups(b, mid + 1, g2)

b64encode(b) ==
    IF Len(b) = 0 THEN "" ELSE B64EncodeGroups(b, 1, (Len(b) + 2) \div 3)

\* whether the text is padded base64: groups of four characters of the
\* alphabet, "=" only at the end of the last group
B64Valid(str) ==
    /\ Len(str) % 4 = 0
    /\ \A i \in 1 .. Len(str) :
          \/ CharAt(str, i) \in DOMAIN B64Index
          \/ /\ CharAt(str, i) = "="
             /\ i >= Len(str) - 1
             /\ (i = Len(str) - 1 => CharAt(str, Len(str)) = "=")

\* the bytes of one group of four characters of a valid text
B64Ungroup(q) ==
    LET c3  == CharAt(q, 3)
        c4  == CharAt(q, 4)
        n1  == B64Index[CharAt(q, 1)]
        n2  == B64Index[CharAt(q, 2)]
        n3  == IF c3 = "=" THEN 0 ELSE B64Index[c3]
        n4  == IF c4 = "=" THEN 0 ELSE B64Index[c4]
    IN  IF c3 = "=" THEN <<n1 * 4 + n2 \div 16>>
        ELSE IF c4 = "=" THEN <<n1 * 4 + n2 \div 16, (n2 % 16) * 16 + n3 \div 4>>
        ELSE <<n1 * 4 + n2 \div 16, (n2 % 16) * 16 + n3 \div 4, (n3 % 4) * 64 + n4>>

RECURSIVE B64DecodeGroups(_, _, _)
B64DecodeGroups(str, g1, g2) ==
    IF g1 = g2
    THEN B64Ungroup(SubSeq(str, 4 * g1 - 3, 4 * g1))
    ELSE LET mid == (g1 + g2) \div 2
         IN  B64DecodeGroups(str, g1, mid) \o B64DecodeGroups(str, mid + 1, g2)

\* base64.b64decode: binascii.Error (ok = FALSE) on a text that is not
\* padded base64
b64decode(str) ==
    IF ~B64Valid(str) THEN [ok |-> FALSE, val |-> <<>>]
    ELSE IF Len(str) = 0 THEN [ok |-> TRUE, val |-> <<>>]
    ELSE [ok |-> TRUE, val |-> B64DecodeGroups(str, 1, Len(str) \div 4)]

(***************************************************************************)
(* Python values of the envelopes (dict, list, str, int, None) and         *)
(* json.dumps / json.loads.  A JSON text is the sequence of its lexemes.   *)
(***************************************************************************)
JStr(str) == [k |-> "str", s |-> str, o |-> <<>>]

JNum(str) == [k |-> "num", s |-> str, o |-> <<>>]

\* a dict: its items <<key, value>> in insertion order
JObj(items) == [k |-> "obj", s |-> "", o |-> items]

\* a list: its elements as items <<"", value>>
JArr(items) == [k |-> "arr", s |-> "", o |-> items]

JNone == [k |-> "none", s |-> "", o |-> <<>>]

Quote(str) == "\"" \o str \o "\""

RECURSIVE json_dumps(_)
RECURSIVE dumps_items(_, _)
json_dumps(v) ==
    CASE v.k = "str" -> <<Quote(v.s)>>
      [] v.k = "num" -> <<v.s>>
      [] v.k = "none" -> <<"null">>
      [] v.k = "obj" -> <<"{">> \o dumps_items(v.o, TRUE) \o <<"}">>
      [] v.k = "arr" -> <<"[">> \o dumps_items(v.o, FALSE) \o <<"]">>

dumps_items(items, keyed) ==
    IF items = <<>> THEN <<>>
    ELSE (IF keyed THEN <<Quote(items[1][1]), ":">> ELSE <<>>)
         \o json_dumps(items[1][2])
         \o (IF Len(items) > 1 THEN <<",">> ELSE <<>>)
         \o dumps_items(Tail(items), keyed)

IsStrTok(tok) ==
    Len(tok) >= 2 /\ CharAt(tok, 1) = "\"" /\ CharAt(tok, Len(tok)) = "\""

IsNumTok(tok) ==
    Len(tok) >= 1 /\ CharAt(tok, 1) \in {"0", "1", "2", "3", "4", "5", "6", "7", "8", "9", "-"}

Unquote(tok) == SubSeq(tok, 2, Len(tok) - 1)

ParseFail == [ok |-> FALSE, val |-> JNone, rest |-> <<>>]

RECURSIVE ParseValue(_)
RECURSIVE ParseItems(_, _, _)
ParseValue(t) ==
    IF t = <<>> THEN ParseFail
    ELSE LET h == Head(t)
         IN  IF h = "{" THEN
                 IF Len(t) >= 2 /\ t[2] = "}"
                 THEN [ok |-> TRUE, val |-> JObj(<<>>), rest |-> SubSeq(t, 3, Len(t))]
                 ELSE ParseItems(Tail(t), <<>>, TRUE)
             ELSE IF h = "[" THEN
                 IF Len(t) >= 2 /\ t[2] = "]"
                 THEN [ok |-> TRUE, val |-> JArr(<<>>), rest |-> SubSeq(t, 3, Len(t))]
                 ELSE ParseItems(Tail(t), <<>>, FALSE)
             ELSE IF h = "null" THEN [ok |-> TRUE, val |-> JNone, rest |-> Tail(t)]
             ELSE IF IsStrTok(h) THEN [ok |-> TRUE, val |-> JStr(Unquote(h)), rest |-> Tail(t)]
             ELSE IF IsNumTok(h) THEN [ok |-> TRUE, val |-> JNum(h), rest |-> Tail(t)]
             ELSE ParseFail

\* the items of an object (keyed) or of an array, after "{", "[" or ","
ParseItems(t, acc, keyed) ==
    LET keyOk == ~keyed \/ (Len(t) >= 2 /\ IsStrTok(t[1]) /\ t[2] = ":")
        key   == IF keyed THEN Unquote(t[1]) ELSE ""
        r     == ParseValue(IF keyed THEN SubSeq(t, 3, Len(t)) ELSE t)
        close == IF keyed THEN "}" ELSE "]"
    IN  IF ~keyOk THEN ParseFail
        ELSE IF ~r.ok \/ r.rest = <<>> THEN ParseFail
        ELSE LET acc2 == Append(acc, <<key, r.val>>)
             IN  IF Head(r.rest) = close
                 THEN [ok |-> TRUE,
                       val |-> IF keyed THEN JObj(acc2) ELSE JArr(acc2),
                       rest |-> Tail(r.rest)]
                 ELSE IF Head(r.rest) = "," THEN ParseItems(Tail(r.rest), acc2, keyed)
                 ELSE ParseFail

\* json.loads: ok = FALSE stands for json.JSONDecodeError
json_loads(t) ==
    LET r == ParseValue(t)
    IN  IF r.ok /\ r.rest = <<>>
        THEN [ok |-> TRUE, val |-> r.val]
        ELSE [ok |-> FALSE, val |-> JNone]

IsDict(v) == v.k = "obj"

\* key in d
HasKey(d, key) == IsDict(d) /\ \E i \in 1 .. Len(d.o) : d.o[i][1] = key

\* d.get(key, default) and d[key] on a dict d holding the key
DictGet(d, key, default) ==
    IF HasKey(d, key)
    THEN d.o[CHOOSE i \in 1 .. Len(d.o) :
                 d.o[i][1] = key /\ \A j \in (i + 1) .. Len(d.o) : d.o[j][1] # key][2]
    ELSE default

(***************************************************************************)
(* The call scripts.  Shared: the peer, the channel, the clock.            *)
(***************************************************************************)
Scripts == {"fake_call", "test_ai", "test_flow"}

\* int(time.time()) when the script starts
Epoch == 17 * 100000000

\* how far the clock may advance during a run
MaxClockAdvance == 1

\* how many texts the peer sends in a run
MaxInbound == 2

\* mutant: the slice runs one byte into the next chunk
Slice_Overlap(seq, lo, n) == SubSeq(seq, lo + 1, Min(lo + n + 1, Len(seq)))

\* Python's seq[lo : lo + n]
Slice(seq, lo, n) == SubSeq(seq, lo + 1, Min(lo + n, Len(seq)))

STREAM_SID == "SIM_STREAM_001"

FROM_NUMBER == "+1234567890"

TO_NUMBER == "+13614507995"

TEST_EMAIL == "customer@example.com"

\* json.dumps({"event": "start", "start": {...}}) of fake_call
FC_StartEnvelope(callSid) ==
    JObj(<< <<"event", JStr("start")>>,
            <<"start", JObj(<< <<"callSid", JStr(callSid)>>,
                               <<"streamSid", JStr(STREAM_SID)>>,
                               <<"from", JStr(FROM_NUMBER)>>,
                               <<"to", JStr(TO_NUMBER)>>,
                               <<"customParameters",
                                 JObj(<< <<"caller_email", JStr(TEST_EMAIL)>> >>)>> >>)>> >>)

\* {"event": "media", "streamSid": STREAM_SID, "media": {"payload": ...}}
FC_MediaEnvelope(chunk) ==
    JObj(<< <<"event", JStr("media")>>,
            <<"streamSid", JStr(STREAM_SID)>>,
            <<"media", JObj(<< <<"payload", JStr(b64encode(chunk))>> >>)>> >>)

\* {"event": "stop", "stop": {"callSid": CALL_SID}}
FC_StopEnvelope(callSid) ==
    JObj(<< <<"event", JStr("stop")>>,
            <<"stop", JObj(<< <<"callSid", JStr(callSid)>> >>)>> >>)

(***************************************************************************)
(* The peer: the media-stream endpoint.  It may send any text, well formed *)
(* or not, while the channel is open, and may close the channel.           *)
(***************************************************************************)
BigPayload == [i \in 1 .. 101 |-> (i * 7) % 256]

SmallPayload == <<0, 127, 255>>

PeerMedia(payload) == json_dumps(FC_MediaEnvelope(payload))

PeerTexts ==
    { PeerMedia(BigPayload),
      PeerMedia(SmallPayload),
      json_dumps(JObj(<< <<"event", JStr("media")>> >>)),
      json_dumps(JObj(<< <<"event", JStr("media")>>, <<"media", JObj(<<>>)>> >>)),
      json_dumps(JObj(<< <<"streamSid", JStr(STREAM_SID)>> >>)),
      <<"{", "\"event\"">> }

\* a media event whose payload is one mu-law code byte, for each code byte
CodeByteTexts == {PeerMedia(<<c>>) : c \in 0 .. 255}

ta_vars == <<start_message, greeting_received, received_audio_chunks, test_audio_file>>

fc_vars == <<lpc, ai_response_count, phrase, CALL_SID>>

audio_vars == <<offset, mulaw_audio>>

PeerSend ==
    /\ chan = "open"
    /\ peer_sent < MaxInbound
    /\ \E text \in PeerTexts : inq' = Append(inq, text)
    /\ peer_sent' = peer_sent + 1
    /\ UNCHANGED <<codec_vars, script, pc, chan, out, aborted, clock,
                   fc_vars, audio_vars, ta_vars>>

PeerClose ==
    /\ chan = "open"
    /\ chan' = "peer_closed"
    /\ UNCHANGED <<codec_vars, script, pc, out, inq, peer_sent, aborted, clock,
                   fc_vars, audio_vars, ta_vars>>

\* websockets.connect(...) raises: fake_call and test_flow let it out,
\* test_websocket_connection catches it and prints
ConnectFail ==
    /\ pc = "connect"
    /\ pc' = IF script = "test_ai" THEN "done" ELSE "crashed"
    /\ aborted' = "connect"
    /\ chan' = "failed"
    /\ UNCHANGED <<codec_vars, script, out, inq, peer_sent, clock,
                   fc_vars, audio_vars, ta_vars>>

(***************************************************************************)
(* fake_call.py: fake_call and its listener task                           *)
(***************************************************************************)
chunk_size_fake_call == 640

PhraseCount == 3

\* sample counts of the synthetic utterances (int(sample_rate * duration_sec)
\* for short durations)
FC_SampleCounts == {641}

\* a sample of the synthetic waveform, (audio * 8000).astype(np.int16)
FakeSample(i) == ((i * 37) % 1601) - 800

\* text_to_fake_pcm: pcm.tobytes() of n samples
text_to_fake_pcm(n) ==
    [b \in 1 .. 2 * n |-> Int16Bytes(FakeSample((b + 1) \div 2))[2 - (b % 2)]]

\* linear_to_mulaw(text_to_fake_pcm(...)) for each utterance length, with and
\* without a failing step
FC_Encoded ==
    [n \in FC_SampleCounts, fault \in BOOLEAN |->
        linear_to_mulaw(text_to_fake_pcm(n), fault)]

\* the exception leaves the async with block: the connection is closed and
\* asyncio.run cancels the listener task
FC_Crash(reason) ==
    /\ pc' = "crashed"
    /\ aborted' = reason
    /\ chan' = "closed"
    /\ lpc' = IF lpc = "running" THEN "cancelled" ELSE lpc

\* async with websockets.connect(...) as ws; listener_task = create_task(listen())
FC_Connect ==
    /\ script = "fake_call"
    /\ pc = "connect"
    /\ chan' = "open"
    /\ lpc' = "running"
    /\ pc' = "send_start"
    /\ UNCHANGED <<codec_vars, script, out, inq, peer_sent, aborted, clock,
                   ai_response_count, phrase, CALL_SID, audio_vars, ta_vars>>

\* await ws.send(json.dumps({"event": "start", ...}))
FC_SendStart ==
    /\ script = "fake_call"
    /\ pc = "send_start"
    /\ IF chan = "open"
       THEN /\ out' = Append(out, json_dumps(FC_StartEnvelope(CALL_SID)))
            /\ pc' = "encode"
            /\ phrase' = 1
            /\ UNCHANGED <<chan, aborted, lpc>>
       ELSE /\ FC_Crash("ConnectionClosed")
            /\ UNCHANGED <<out, phrase>>
    /\ UNCHANGED <<codec_vars, script, inq, peer_sent, clock,
                   ai_response_count, CALL_SID, audio_vars, ta_vars>>

\* pcm_audio = text_to_fake_pcm(...); mulaw_audio = linear_to_mulaw(pcm_audio)
FC_Encode ==
    /\ script = "fake_call"
    /\ pc = "encode"
    /\ \E n \in FC_SampleCounts, fault \in BOOLEAN :
          LET r == FC_Encoded[n, fault]
          IN  IF r.raised
              THEN /\ FC_Crash("codec")
                   /\ UNCHANGED <<audio_vars>>
              ELSE /\ mulaw_audio' = r.ret
                   /\ offset' = 0
                   /\ pc' = "chunk"
                   /\ UNCHANGED <<chan, aborted, lpc>>
    /\ UNCHANGED <<codec_vars, script, out, inq, peer_sent, clock,
                   ai_response_count, phrase, CALL_SID, ta_vars>>

\* for j in range(0, len(mulaw_audio), chunk_size): await ws.send(media)
FC_SendChunk ==
    /\ script = "fake_call"
    /\ pc = "chunk"
    /\ offset < Len(mulaw_audio)
    /\ IF chan = "open"
       THEN /\ out' = Append(out, json_dumps(FC_MediaEnvelope(
                          Slice(mulaw_audio, offset, chunk_size_fake_call))))
            /\ offset' = offset + chunk_size_fake_call
            /\ UNCHANGED <<pc, chan, aborted, lpc>>
       ELSE /\ FC_Crash("ConnectionClosed")
            /\ UNCHANGED <<out, offset>>
    /\ UNCHANGED <<codec_vars, script, inq, peer_sent, clock,
                   ai_response_count, phrase, CALL_SID, mulaw_audio, ta_vars>>

\* mutant: the stop event is skipped after the last utterance
FC_AfterChunks_NoStop(p) == IF p < PhraseCount THEN "encode" ELSE "cancel"

\* the end of the inner loop: the next utterance, or the stop event
FC_AfterChunks(p) == IF p < PhraseCount THEN "encode" ELSE "send_stop"

FC_ChunksDone ==
    /\ script = "fake_call"
    /\ pc = "chunk"
    /\ offset >= Len(mulaw_audio)
    /\ pc' = FC_AfterChunks(phrase)
    /\ phrase' = IF phrase < PhraseCount THEN phrase + 1 ELSE phrase
    /\ UNCHANGED <<codec_vars, script, chan, out, inq, peer_sent, aborted, clock,
                   lpc, ai_response_count, CALL_SID, audio_vars, ta_vars>>

\* await ws.send(json.dumps({"event": "stop", ...}))
FC_SendStop ==
    /\ script = "fake_call"
    /\ pc = "send_stop"
    /\ IF chan = "open"
       THEN /\ out' = Append(out, json_dumps(FC_StopEnvelope(CALL_SID)))
            /\ pc' = "cancel"
            /\ UNCHANGED <<chan, aborted, lpc>>
       ELSE /\ FC_Crash("ConnectionClosed")
            /\ UNCHANGED <<out>>
    /\ UNCHANGED <<codec_vars, script, inq, peer_sent, clock,
                   ai_response_count, phrase, CALL_SID, audio_vars, ta_vars>>

\* listener_task.cancel(); the prints; the async with block is left
FC_Cancel ==
    /\ script = "fake_call"
    /\ pc = "cancel"
    /\ lpc' = IF lpc = "running" THEN "cancelled" ELSE lpc
    /\ pc' = "done"
    /\ chan' = "closed"
    /\ UNCHANGED <<codec_vars, script, out, inq, peer_sent, aborted, clock,
                   ai_response_count, phrase, CALL_SID, audio_vars, ta_vars>>

\* mutant: the counter is incremented after the payload has been read
ListenOutcome_CountAfter(data) ==
    LET r       == json_loads(data)
        obj     == r.val
        isMedia == DictGet(obj, "event", JNone) = JStr("media") /\ HasKey(obj, "media")
        media   == DictGet(obj, "media", JNone)
        read    == HasKey(media, "payload")
                   /\ DictGet(media, "payload", JNone).k \in {"str", "obj", "arr"}
    IN  IF ~r.ok \/ ~IsDict(obj) THEN [next |-> "error", counted |-> FALSE]
        ELSE IF ~isMedia THEN [next |-> "running", counted |-> FALSE]
        ELSE IF read THEN [next |-> "running", counted |-> TRUE]
        ELSE [next |-> "error", counted |-> FALSE]

\* what one pass of the listener's loop does with a received text:
\* "ok" (the loop goes on) or "error" (an exception leaves the loop), and
\* whether the counter was incremented before
ListenOutcome(data) ==
    LET r       == json_loads(data)
        obj     == r.val
        isMedia == DictGet(obj, "event", JNone) = JStr("media") /\ HasKey(obj, "media")
        media   == DictGet(obj, "media", JNone)
    IN  IF ~r.ok THEN [next |-> "error", counted |-> FALSE]
        ELSE IF ~IsDict(obj) THEN [next |-> "error", counted |-> FALSE]
        ELSE IF ~isMedia THEN [next |-> "running", counted |-> FALSE]
        ELSE IF HasKey(media, "payload")
                /\ DictGet(media, "payload", JNone).k \in {"str", "obj", "arr"}
             THEN [next |-> "running", counted |-> TRUE]
             ELSE [next |-> "error", counted |-> TRUE]

\* data = await ws.recv(); obj = json.loads(data); ...
Listen ==
    /\ script = "fake_call"
    /\ lpc = "running"
    /\ inq # <<>>
    /\ LET res == ListenOutcome(Head(inq))
       IN  /\ lpc' = res.next
           /\ ai_response_count' = IF res.counted THEN ai_response_count + 1
                                   ELSE ai_response_count
    /\ inq' = Tail(inq)
    /\ UNCHANGED <<codec_vars, script, pc, chan, out, peer_sent, aborted, clock,
                   phrase, CALL_SID, audio_vars, ta_vars>>

\* except websockets.exceptions.ConnectionClosed: print("Listener closed")
ListenClosed ==
    /\ script = "fake_call"
    /\ lpc = "running"
    /\ inq = <<>>
    /\ chan = "peer_closed"
    /\ lpc' = "closed"
    /\ UNCHANGED <<codec_vars, script, pc, chan, out, inq, peer_sent, aborted, clock,
                   ai_response_count, phrase, CALL_SID, audio_vars, ta_vars>>

(***************************************************************************)
(* test_ai.py: test_websocket_connection                                   *)
(***************************************************************************)
chunk_size_test_ai == 160

\* lengths of the mu-law audio load_audio_file returns
TA_AudioLens == {0, 160, 161}

\* load_audio_file: audioop.lin2ulaw of the file's samples
load_audio_file(n) == [i \in 1 .. n |-> G711Encode(FakeSample(i))]

TA_Loaded == [n \in TA_AudioLens |-> load_audio_file(n)]

\* start_message; t1, t2, t3: the three readings of int(time.time())
TA_StartMessage(t1, t2, t3) ==
    JObj(<< <<"event", JStr("start")>>,
            <<"sequenceNumber", JStr("1")>>,
            <<"start", JObj(<<
                <<"streamSid", JStr("TEST_STREAM_" \o ToString(t1))>>,
                <<"accountSid", JStr("TEST_ACCOUNT")>>,
                <<"callSid", JStr("TEST_CALL_" \o ToString(t2))>>,
                <<"tracks", JArr(<< <<"", JStr("inbound")>> >>)>>,
                <<"mediaFormat", JObj(<< <<"encoding", JStr("audio/x-mulaw")>>,
                                         <<"sampleRate", JNum("8000")>>,
                                         <<"channels", JNum("1")>> >>)>>,
                <<"customParameters",
                  JObj(<< <<"From", JStr("+1234567890")>>,
                          <<"To", JStr("+0987654321")>>,
                          <<"caller_email", JStr("test@artbymaudsch.com")>> >>)>> >>)>>,
            <<"streamSid", JStr("TEST_STREAM_" \o ToString(t3))>> >>)

\* media_message for chunk number i, built at clock reading t
TA_MediaMessage(i, chunk, t, start) ==
    JObj(<< <<"event", JStr("media")>>,
            <<"sequenceNumber", JStr(ToString(i + 10))>>,
            <<"media", JObj(<< <<"track", JStr("inbound")>>,
                               <<"chunk", JStr(ToString(i))>>,
                               <<"timestamp", JStr(ToString(t) \o "000")>>,
                               <<"payload", JStr(b64encode(chunk))>> >>)>>,
            <<"streamSid", DictGet(start, "streamSid", JNone)>> >>)

\* stop_message
TA_StopMessage(start) ==
    JObj(<< <<"event", JStr("stop")>>,
            <<"sequenceNumber", JStr("9999")>>,
            <<"stop", JObj(<< <<"accountSid", JStr("TEST_ACCOUNT")>>,
                              <<"callSid", DictGet(DictGet(start, "start", JNone),
                                                   "callSid", JNone)>> >>)>>,
            <<"streamSid", DictGet(start, "streamSid", JNone)>> >>)

\* data = json.loads(response); if data.get("event") == "media":
\*     payload = data.get("media", {}).get("payload")
\*     if payload: chunk = base64.b64decode(payload)
\* exc: the exception raised, "" when none; has: whether a chunk was decoded
ReceiveMedia(text) ==
    LET r       == json_loads(text)
        data    == r.val
        media   == DictGet(data, "media", JObj(<<>>))
        payload == DictGet(media, "payload", JNone)
        truthy  == \/ (payload.k \in {"str", "num"} /\ payload.s \notin {"", "0"})
                   \/ (payload.k \in {"obj", "arr"} /\ payload.o # <<>>)
        bytes   == b64decode(payload.s)
        none    == [exc |-> "", has |-> FALSE, chunk |-> <<>>]
    IN  IF ~r.ok THEN [none EXCEPT !.exc = "JSONDecodeError"]
        ELSE IF ~IsDict(data) THEN [none EXCEPT !.exc = "AttributeError"]
        ELSE IF DictGet(data, "event", JNone) # JStr("media") THEN none
        ELSE IF ~IsDict(media) THEN [none EXCEPT !.exc = "AttributeError"]
        ELSE IF ~truthy THEN none
        ELSE IF payload.k # "str" THEN [none EXCEPT !.exc = "TypeError"]
        ELSE IF ~bytes.ok THEN [none EXCEPT !.exc = "binascii.Error"]
        ELSE [exc |-> "", has |-> TRUE, chunk |-> bytes.val]

\* except Exception as e: print(...); the async with block is left
TA_Abort(reason) ==
    /\ pc' = "done"
    /\ aborted' = reason
    /\ chan' = "closed"

TA_Connect ==
    /\ script = "test_ai"
    /\ pc = "connect"
    /\ chan' = "open"
    /\ pc' = "send_start"
    /\ UNCHANGED <<codec_vars, script, out, inq, peer_sent, aborted, clock,
                   fc_vars, audio_vars, ta_vars>>

\* start_message = {...}; await websocket.send(json.dumps(start_message))
TA_SendStart ==
    /\ script = "test_ai"
    /\ pc = "send_start"
    /\ \E d1, d2, d3 \in {0, 1} :
          /\ clock + d1 + d2 + d3 <= MaxClockAdvance
          /\ clock' = clock + d1 + d2 + d3
          /\ start_message' = TA_StartMessage(Epoch + clock + d1,
                                              Epoch + clock + d1 + d2,
                                              Epoch + clock + d1 + d2 + d3)
    /\ IF chan = "open"
       THEN /\ out' = Append(out, json_dumps(start_message'))
            /\ pc' = "greet"
            /\ UNCHANGED <<chan, aborted>>
       ELSE /\ TA_Abort("ConnectionClosed")
            /\ UNCHANGED <<out>>
    /\ UNCHANGED <<codec_vars, script, inq, peer_sent, fc_vars, audio_vars,
                   greeting_received, received_audio_chunks, test_audio_file>>

\* one pass of the greeting loop with a text received in time
TA_GreetRecv ==
    /\ script = "test_ai"
    /\ pc = "greet"
    /\ inq # <<>>
    /\ inq' = Tail(inq)
    /\ LET res == ReceiveMedia(Head(inq))
       IN  IF res.exc # ""
           THEN /\ TA_Abort(res.exc)
                /\ UNCHANGED <<greeting_received, received_audio_chunks>>
           ELSE IF res.has /\ Len(res.chunk) > 100
           THEN /\ received_audio_chunks' = Append(received_audio_chunks, res.chunk)
                /\ greeting_received' = TRUE
                /\ pc' = "after_greet"
                /\ UNCHANGED <<chan, aborted>>
           ELSE UNCHANGED <<pc, chan, aborted, greeting_received, received_audio_chunks>>
    /\ UNCHANGED <<codec_vars, script, out, peer_sent, clock, fc_vars, audio_vars,
                   start_message, test_audio_file>>

\* websocket.recv() raises ConnectionClosed, in either receive loop
TA_RecvClosed ==
    /\ script = "test_ai"
    /\ pc \in {"greet", "collect"}
    /\ inq = <<>>
    /\ chan = "peer_closed"
    /\ TA_Abort("ConnectionClosed")
    /\ UNCHANGED <<codec_vars, script, out, inq, peer_sent, clock, fc_vars,
                   audio_vars, ta_vars>>

\* the 15 seconds of the greeting loop have passed
TA_GreetExpire ==
    /\ script = "test_ai"
    /\ pc = "greet"
    /\ pc' = "after_greet"
    /\ UNCHANGED <<codec_vars, script, chan, out, inq, peer_sent, aborted, clock,
                   fc_vars, audio_vars, ta_vars>>

\* save_audio_response, transcribe_audio, received_audio_chunks.clear();
\* failed: the file cannot be written or the transcription service raises
TA_AfterGreet ==
    /\ script = "test_ai"
    /\ pc = "after_greet"
    /\ \E failed \in BOOLEAN :
          IF greeting_received /\ failed
          THEN /\ TA_Abort("transcribe")
               /\ UNCHANGED <<received_audio_chunks>>
          ELSE /\ received_audio_chunks' =
                     IF greeting_received THEN <<>> ELSE received_audio_chunks
               /\ pc' = IF test_audio_file THEN "load" ELSE "send_stop"
               /\ UNCHANGED <<chan, aborted>>
    /\ UNCHANGED <<codec_vars, script, out, inq, peer_sent, clock, fc_vars,
                   audio_vars, start_message, greeting_received, test_audio_file>>

\* mulaw_audio = load_audio_file(test_audio_file); found: the file exists
\* and has a supported format
TA_Load ==
    /\ script = "test_ai"
    /\ pc = "load"
    /\ \E found \in BOOLEAN, n \in TA_AudioLens :
          IF ~found
          THEN /\ TA_Abort("load")
               /\ UNCHANGED <<audio_vars>>
          ELSE /\ mulaw_audio' = TA_Loaded[n]
               /\ offset' = 0
               /\ pc' = "chunk"
               /\ UNCHANGED <<chan, aborted>>
    /\ UNCHANGED <<codec_vars, script, out, inq, peer_sent, clock, fc_vars, ta_vars>>

\* for i, chunk in enumerate(chunks): await websocket.send(media_message)
TA_SendChunk ==
    /\ script = "test_ai"
    /\ pc = "chunk"
    /\ offset < Len(mulaw_audio)
    /\ \E d \in {0, 1} :
          /\ clock + d <= MaxClockAdvance
          /\ clock' = clock + d
          /\ IF chan = "open"
             THEN /\ out' = Append(out, json_dumps(TA_MediaMessage(
                                offset \div chunk_size_test_ai,
                                Slice(mulaw_audio, offset, chunk_size_test_ai),
                                Epoch + clock + d, start_message)))
                  /\ offset' = offset + chunk_size_test_ai
                  /\ UNCHANGED <<pc, chan, aborted>>
             ELSE /\ TA_Abort("ConnectionClosed")
                  /\ UNCHANGED <<out, offset>>
    /\ UNCHANGED <<codec_vars, script, inq, peer_sent, fc_vars, mulaw_audio, ta_vars>>

TA_ChunksDone ==
    /\ script = "test_ai"
    /\ pc = "chunk"
    /\ offset >= Len(mulaw_audio)
    /\ pc' = "collect"
    /\ UNCHANGED <<codec_vars, script, chan, out, inq, peer_sent, aborted, clock,
                   fc_vars, audio_vars, ta_vars>>

\* one pass of the response loop with a text received in time
TA_CollectRecv ==
    /\ script = "test_ai"
    /\ pc = "collect"
    /\ inq # <<>>
    /\ inq' = Tail(inq)
    /\ LET res == ReceiveMedia(Head(inq))
       IN  IF res.exc # ""
           THEN /\ TA_Abort(res.exc)
                /\ UNCHANGED <<received_audio_chunks>>
           ELSE /\ received_audio_chunks' =
                      IF res.has /\ Len(res.chunk) > 100
                      THEN Append(received_audio_chunks, res.chunk)
                      ELSE received_audio_chunks
                /\ UNCHANGED <<pc, chan, aborted>>
    /\ UNCHANGED <<codec_vars, script, out, peer_sent, clock, fc_vars, audio_vars,
                   start_message, greeting_received, test_audio_file>>

\* the response loop ends: 20 seconds have passed, or a receive timed out
\* with chunks collected; then save_audio_response and transcribe_audio
TA_CollectEnd ==
    /\ script = "test_ai"
    /\ pc = "collect"
    /\ \E failed \in BOOLEAN :
          IF received_audio_chunks # <<>> /\ failed
          THEN TA_Abort("transcribe")
          ELSE /\ pc' = "send_stop"
               /\ UNCHANGED <<chan, aborted>>
    /\ UNCHANGED <<codec_vars, script, out, inq, peer_sent, clock, fc_vars,
                   audio_vars, ta_vars>>

\* await websocket.send(json.dumps(stop_message))
TA_SendStop ==
    /\ script = "test_ai"
    /\ pc = "send_stop"
    /\ IF chan = "open"
       THEN /\ out' = Append(out, json_dumps(TA_StopMessage(start_message)))
            /\ pc' = "sleep"
            /\ UNCHANGED <<chan, aborted>>
       ELSE /\ TA_Abort("ConnectionClosed")
            /\ UNCHANGED <<out>>
    /\ UNCHANGED <<codec_vars, script, inq, peer_sent, clock, fc_vars, audio_vars,
                   ta_vars>>

\* await asyncio.sleep(2); the async with block is left
TA_Close ==
    /\ script = "test_ai"
    /\ pc = "sleep"
    /\ pc' = "done"
    /\ chan' = "closed"
    /\ UNCHANGED <<codec_vars, script, out, inq, peer_sent, aborted, clock,
                   fc_vars, audio_vars, ta_vars>>

(***************************************************************************)
(* test_flow.py: test_flow                                                 *)
(***************************************************************************)
TF_StartEvent ==
    JObj(<< <<"event", JStr("start")>>,
            <<"start", JObj(<< <<"callSid", JStr("TESTCALL123")>>,
                               <<"streamSid", JStr("STREAM123")>>,
                               <<"from", JStr("+1234567890")>>,
                               <<"to", JStr("+13614507995")>>,
                               <<"customParameters",
                                 JObj(<< <<"caller_email", JStr("test@example.com")>> >>)>> >>)>> >>)

\* an exception leaves test_flow: the async with block closes the channel
TF_Crash(reason) ==
    /\ pc' = "crashed"
    /\ aborted' = reason
    /\ chan' = "closed"

TF_Connect ==
    /\ script = "test_flow"
    /\ pc = "connect"
    /\ chan' = "open"
    /\ pc' = "send_start"
    /\ UNCHANGED <<codec_vars, script, out, inq, peer_sent, aborted, clock,
                   fc_vars, audio_vars, ta_vars>>

\* await websocket.send(json.dumps(start_event))
TF_SendStart ==
    /\ script = "test_flow"
    /\ pc = "send_start"
    /\ IF chan = "open"
       THEN /\ out' = Append(out, json_dumps(TF_StartEvent))
            /\ pc' = "wait"
            /\ UNCHANGED <<chan, aborted>>
       ELSE /\ TF_Crash("ConnectionClosed")
            /\ UNCHANGED <<out>>
    /\ UNCHANGED <<codec_vars, script, inq, peer_sent, clock, fc_vars, audio_vars,
                   ta_vars>>

\* what the loop body makes of each text the peer can send
TF_Received == [text \in PeerTexts \cup CodeByteTexts |-> ReceiveMedia(text)]

\* one pass of the greeting loop with a text received within 15 seconds:
\* a media event with a payload is decoded, played and saved, and ends it
TF_Recv ==
    /\ script = "test_flow"
    /\ pc = "wait"
    /\ inq # <<>>
    /\ inq' = Tail(inq)
    /\ LET res == TF_Received[Head(inq)]
       IN  IF res.exc # ""
           THEN /\ TF_Crash(res.exc)
                /\ UNCHANGED <<dec>>
           ELSE IF res.has
           THEN /\ dec' = mulaw_to_linear_float(res.chunk)
                /\ pc' = "complete"
                /\ UNCHANGED <<chan, aborted>>
           ELSE UNCHANGED <<pc, chan, aborted, dec>>
    /\ UNCHANGED <<pcm_bytes, env_fault, enc, enc_prefix, cpc, script, out,
                   peer_sent, clock, fc_vars, audio_vars, ta_vars>>

\* asyncio.TimeoutError: no text within 15 seconds; break
TF_Timeout ==
    /\ script = "test_flow"
    /\ pc = "wait"
    /\ inq = <<>>
    /\ chan = "open"
    /\ pc' = "complete"
    /\ UNCHANGED <<codec_vars, script, chan, out, inq, peer_sent, aborted, clock,
                   fc_vars, audio_vars, ta_vars>>

\* websocket.recv() raises ConnectionClosed
TF_RecvClosed ==
    /\ script = "test_flow"
    /\ pc = "wait"
    /\ inq = <<>>
    /\ chan = "peer_closed"
    /\ TF_Crash("ConnectionClosed")
    /\ UNCHANGED <<codec_vars, script, out, inq, peer_sent, clock, fc_vars,
                   audio_vars, ta_vars>>

\* print("Test flow complete"); the async with block is left
TF_Complete ==
    /\ script = "test_flow"
    /\ pc = "complete"
    /\ pc' = "done"
    /\ chan' = "closed"
    /\ UNCHANGED <<codec_vars, script, out, inq, peer_sent, aborted, clock,
                   fc_vars, audio_vars, ta_vars>>

InitSession ==
    /\ pcm_bytes = <<>>
    /\ env_fault = FALSE
    /\ enc = NoEnc
    /\ enc_prefix = NoEnc
    /\ dec = <<>>
    /\ cpc = "idle"
    /\ script \in Scripts
    /\ pc = "connect"
    /\ chan = "idle"
    /\ out = <<>>
    /\ inq = <<>>
    /\ peer_sent = 0
    /\ lpc = "none"
    /\ ai_response_count = 0
    /\ phrase = 0
    /\ offset = 0
    /\ mulaw_audio = <<>>
    /\ aborted = ""
    /\ clock = 0
    /\ CALL_SID = IF script = "fake_call" THEN "SIM_TEST_" \o ToString(Epoch) ELSE ""
    /\ start_message = JNone
    /\ greeting_received = FALSE
    /\ received_audio_chunks = <<>>
    /\ test_audio_file \in (IF script = "test_ai" THEN BOOLEAN ELSE {FALSE})

NextSession ==
    \/ PeerSend \/ PeerClose \/ ConnectFail
    \/ FC_Connect \/ FC_SendStart \/ FC_Encode \/ FC_SendChunk \/ FC_ChunksDone
    \/ FC_SendStop \/ FC_Cancel \/ Listen \/ ListenClosed
    \/ TA_Connect \/ TA_SendStart \/ TA_GreetRecv \/ TA_RecvClosed \/ TA_GreetExpire
    \/ TA_AfterGreet \/ TA_Load \/ TA_SendChunk \/ TA_ChunksDone \/ TA_CollectRecv
    \/ TA_CollectEnd \/ TA_SendStop \/ TA_Close
    \/ TF_Connect \/ TF_SendStart \/ TF_Recv \/ TF_Timeout \/ TF_RecvClosed
    \/ TF_Complete

SpecSession == InitSession /\ [][NextSession]_vars

(***************************************************************************)
(* What a receiver extracts from a sent text: json.loads, then the event   *)
(* discriminator, the top-level streamSid and the decoded media.payload.   *)
(***************************************************************************)
Extract(text) ==
    LET r == json_loads(text)
    IN  IF ~r.ok \/ ~IsDict(r.val)
        THEN [kind |-> JNone, id |-> JNone, payload |-> JNone]
        ELSE [kind    |-> DictGet(r.val, "event", JNone),
              id      |-> DictGet(r.val, "streamSid", JNone),
              payload |-> DictGet(DictGet(r.val, "media", JNone), "payload", JNone)]

\* the event discriminators of the texts sent so far
OutKinds == [i \in 1 .. Len(out) |-> Extract(out[i]).kind.s]

\* the stream identifier the running script uses for its session
SessionStreamId ==
    CASE script = "fake_call" -> JStr(STREAM_SID)
      [] script = "test_flow" -> JStr("STREAM123")
      [] script = "test_ai"   -> DictGet(start_message, "streamSid", JNone)
      [] OTHER                -> JNone

\* the chunk size of the running script
ChunkSize ==
    IF script = "test_ai" THEN chunk_size_test_ai ELSE chunk_size_fake_call

\* C8: envelope round trip: every envelope a script sends parses back to
\* its kind (start, media or stop), to the session's stream identifier at
\* top-level streamSid and, for media, to the payload bytes that were sent.
C8_EnvelopeRoundTrip ==
    /\ \A i \in 1 .. Len(out) :
          /\ Extract(out[i]).kind.s \in {"start", "media", "stop"}
          /\ Extract(out[i]).id = SessionStreamId
          /\ (Extract(out[i]).kind.s = "media" =>
                 b64decode(Extract(out[i]).payload.s).ok)
    /\ (pc = "chunk" /\ offset > 0) =>
          b64decode(Extract(out[Len(out)]).payload.s).val
              = Slice(mulaw_audio, offset - ChunkSize, ChunkSize)

\* C9: a malformed inbound text (unparsable, or lacking a required field)
\* does not stop reception: no receiver ends on it, neither the listener
\* task of fake_call nor the receive loops of the other scripts.
C9_MalformedSkipped ==
    /\ lpc # "error"
    /\ aborted \notin {"JSONDecodeError", "AttributeError", "TypeError", "binascii.Error"}

\* start first and only first, stop last and only last, nothing else than
\* start, media and stop
Ordered(kinds) ==
    \A i \in 1 .. Len(kinds) :
        /\ kinds[i] \in {"start", "media", "stop"}
        /\ (kinds[i] = "start" <=> i = 1)
        /\ (kinds[i] = "stop" => i = Len(kinds))

StreamIdsOf(text) ==
    LET v == json_loads(text).val
    IN  {DictGet(v, "streamSid", JNone),
         DictGet(DictGet(v, "start", JNone), "streamSid", JNone)} \ {JNone}

\* all stream identifiers sent so far
StreamIdsSent == UNION {StreamIdsOf(out[i]) : i \in 1 .. Len(out)}

\* C11: stream-identifier consistency: within one session of fake_call or
\* test_websocket_connection every stream identifier an envelope carries
\* (top-level streamSid, and streamSid inside the start object) is one and
\* the same value, whatever the clock reads when they are computed.
C11_OneStreamId ==
    script \in {"fake_call", "test_ai"} => Cardinality(StreamIdsSent) <= 1

(***************************************************************************)
(* test_flow against a peer that never stops sending: the greeting-wait    *)
(* loop of test_flow.py has no deadline of its own, only the 15-second     *)
(* timeout of each recv.                                                   *)
(***************************************************************************)
\* how many texts may wait unread in the channel
MaxQueue == 2

\* the peer sends one more text before the pending recv times out; the
\* count of texts sent saturates
PeerStream ==
    /\ chan = "open"
    /\ Len(inq) < MaxQueue
    /\ \E text \in PeerTexts : inq' = Append(inq, text)
    /\ peer_sent' = Min(peer_sent + 1, MaxInbound)
    /\ UNCHANGED <<codec_vars, script, pc, chan, out, aborted, clock,
                   fc_vars, audio_vars, ta_vars>>

InitFlow == InitSession /\ script = "test_flow"

\* the steps of the test_flow coroutine
TF_Step ==
    \/ TF_Connect \/ TF_SendStart \/ TF_Recv \/ TF_Timeout \/ TF_RecvClosed
    \/ TF_Complete

NextFlow ==
    \/ PeerStream \/ PeerClose \/ ConnectFail
    \/ TF_Connect \/ TF_SendStart \/ TF_Recv \/ TF_Timeout \/ TF_RecvClosed
    \/ TF_Complete

\* the event loop runs the coroutine whenever it can take a step
SpecFlowLive == InitFlow /\ [][NextFlow]_vars /\ WF_vars(TF_Step)

\* C12: test_flow exits: whatever the peer sends after the start envelope,
\* an endless stream of texts arriving within the receive timeout included,
\* the greeting-wait loop eventually ends (by completion, or by an exception
\* that ends the script).
C12_FlowLoopEnds == <>(pc \in {"complete", "done", "crashed"})

(***************************************************************************)
(* The magnitude the encoder works on.                                     *)
(***************************************************************************)
\* the largest e in 0..7 with (256 << e) <= b, 0 when there is none
LargestThreshold(b) ==
    LET match == {e \in 0 .. 7 : Shl(256, e) <= b}
    IN  IF match = {} THEN 0 ELSE CHOOSE e \in match : \A f \in match : f <= e

\* C13: magnitude clipping: for every sample of an encoded buffer, -32768
\* included, the magnitude after the absolute-value and clip steps lies in
\* 0..32635, the biased magnitude in 132..32767, and the exponent field of
\* the code byte is the largest e in 0..7 with (256 << e) <= biased
\* magnitude, or 0 when no threshold matches.
C13_MagnitudeClipped ==
    (cpc # "input" /\ ~env_fault) =>
        \A i \in 1 .. Len(enc.ret) :
            /\ BiasedMagnitude(Samples[i]) - BIAS \in 0 .. CLIP
            /\ BiasedMagnitude(Samples[i]) \in 132 .. 32767
            /\ DecExponent(enc.ret[i]) = LargestThreshold(BiasedMagnitude(Samples[i]))

(***************************************************************************)
(* The decoder on every code byte: test_flow has sent its start event and  *)
(* the peer's greeting, a media event of one code byte, waits to be read.  *)
(***************************************************************************)
InitDecoder ==
    /\ pcm_bytes = <<>>
    /\ env_fault = FALSE
    /\ enc = NoEnc
    /\ enc_prefix = NoEnc
    /\ dec = <<>>
    /\ cpc = "idle"
    /\ script = "test_flow"
    /\ pc = "wait"
    /\ chan = "open"
    /\ out = <<json_dumps(TF_StartEvent)>>
    /\ inq \in {<<text>> : text \in CodeByteTexts}
    /\ peer_sent = 1
    /\ lpc = "none"
    /\ ai_response_count = 0
    /\ phrase = 0
    /\ offset = 0
    /\ mulaw_audio = <<>>
    /\ aborted = ""
    /\ clock = 0
    /\ CALL_SID = ""
    /\ start_message = JNone
    /\ greeting_received = FALSE
    /\ received_audio_chunks = <<>>
    /\ test_audio_file = FALSE

NextDecoder == TF_Recv \/ TF_Complete

SpecDecoder == InitDecoder /\ [][NextDecoder]_vars

\* C14: decoded samples fit the 16-bit range: when test_flow decodes a
\* received payload, for every code byte the magnitude
\* ((m << 4) + 8) << (e + 2) of its complemented fields lies in 0..32767,
\* the stored sample is that magnitude, negated exactly when the sign bit is
\* set, and the sample divided by 32768 lies in [-1.0, 1.0].
C14_DecodedFitsInt16 ==
    [][(script = "test_flow" /\ pc = "wait" /\ pc' = "complete" /\ inq # <<>>) =>
          LET bytes == TF_Received[Head(inq)].chunk
          IN  /\ Len(dec') = Len(bytes)
              /\ \A i \in 1 .. Len(bytes) :
                    LET magnitude == Shl(Shl(DecMantissa(bytes[i]), 4) + 8,
                                         DecExponent(bytes[i]) + 2)
                    IN  /\ magnitude \in 0 .. 32767
                        /\ dec'[i] = (IF DecSign(bytes[i]) # 0 THEN -magnitude
                                      ELSE magnitude)
                        /\ dec'[i] \in -32768 .. 32768]_vars

(***************************************************************************)
(* The chunks streamed for the buffer in mulaw_audio: while the chunk loop *)
(* runs, the last offset / chunk_size envelopes sent are its media events. *)
(***************************************************************************)
ChunksSent == offset \div ChunkSize

\* the payload bytes a receiver decodes from those envelopes, in send order
SentChunks ==
    [i \in 1 .. ChunksSent |->
        b64decode(Extract(out[Len(out) - ChunksSent + i]).payload.s).val]

RECURSIVE Flatten(_)
Flatten(seqs) == IF seqs = <<>> THEN <<>> ELSE Head(seqs) \o Flatten(Tail(seqs))

\* C15: chunked streaming loses and reorders nothing: in fake_call (chunk
\* size 640) and test_websocket_connection (160), while a buffer is being
\* streamed the payloads sent for it, concatenated in send order, are the
\* part of the buffer streamed so far, and the whole buffer once the loop
\* has ended; every chunk is non-empty, every chunk but the last of the
\* buffer has exactly chunk-size bytes, and an empty buffer produces no
\* media envelope.
C15_ChunksRebuildBuffer ==
    (script \in {"fake_call", "test_ai"} /\ pc = "chunk") =>
        /\ ChunksSent <= Len(out) - 1
        /\ \A i \in 1 .. ChunksSent : OutKinds[Len(out) - ChunksSent + i] = "media"
        /\ Flatten(SentChunks) = SubSeq(mulaw_audio, 1, Min(offset, Len(mulaw_audio)))
        /\ \A i \in 1 .. ChunksSent :
              /\ Len(SentChunks[i]) >= 1
              /\ (i * ChunkSize < Len(mulaw_audio) => Len(SentChunks[i]) = ChunkSize)
        /\ ChunksSent * ChunkSize = offset
        /\ offset < Len(mulaw_audio) + ChunkSize
        /\ (Len(mulaw_audio) = 0 /\ (script = "test_ai" \/ phrase = 1)) =>
              \A i \in 1 .. Len(out) : OutKinds[i] # "media"

C15_Witness ==
    /\ script = "fake_call"
    /\ pc = "chunk"
    /\ phrase = 2
    /\ Len(mulaw_audio) = chunk_size_fake_call + 1
    /\ offset >= Len(mulaw_audio)
    /\ ChunksSent = 2
    /\ Len(SentChunks[2]) = 1
    /\ Flatten(SentChunks) = mulaw_audio

(***************************************************************************)
(* The listener's counter.                                                 *)
(***************************************************************************)
\* the texts of the peer that are JSON objects with event "media" and a
\* media field
MediaMessages ==
    {text \in PeerTexts :
        LET r == json_loads(text)
        IN  /\ r.ok
            /\ IsDict(r.val)
            /\ DictGet(r.val, "event", JNone) = JStr("media")
            /\ HasKey(r.val, "media")}

\* C16: response counting under interleaving: in fake_call, whatever the
\* interleaving of the listener with the sending coroutine,
\* ai_response_count is 0 when the listener starts, never decreases, grows
\* by exactly one when the listener receives a text whose event is media
\* and that has a media field, and is changed by no other step; after
\* listener_task.cancel() the listener receives nothing more, so the total
\* printed is the count of such texts received before the cancellation.
C16_CountsMediaMessages ==
    [][script = "fake_call" =>
          /\ (lpc = "none" => ai_response_count = 0 /\ ai_response_count' = 0)
          /\ ai_response_count' >= ai_response_count
          /\ IF lpc = "running" /\ inq # <<>> /\ inq' = Tail(inq)
             THEN ai_response_count' =
                      ai_response_count + (IF Head(inq) \in MediaMessages THEN 1 ELSE 0)
             ELSE ai_response_count' = ai_response_count
          /\ (pc \in {"done", "crashed"} => inq' # Tail(inq) \/ inq = <<>>)
          /\ (pc' = "done" => lpc' # "running")]_vars

C16_Witness ==
    /\ script = "fake_call"
    /\ pc = "done"
    /\ aborted = ""
    /\ lpc = "cancelled"
    /\ ai_response_count = 2
    /\ peer_sent = 2
    /\ inq = <<>>
    /\ Len(out) >= 5

====
